---- MODULE Spec2Model ----
(***************************************************************************)
(* Model of scripts/extract-country-mapping.py: extract_country_mapping()  *)
(* reads a CSV file with csv.DictReader, collects REF_AREA ->              *)
(* REF_AREA_LABEL into a dict, sorts the items, prints two source snippets *)
(* and dumps a JSON object with nameToCode and codeToName.                 *)
(*                                                                         *)
(* Strings of the data (field values, codes, labels) are sequences of      *)
(* one-character strings, so that strip, replace and the lexicographic     *)
(* order of sorted() are computed character by character.  Python dicts    *)
(* are sequences of <<key, value>> pairs in insertion order.               *)
(***************************************************************************)
EXTENDS Integers, Sequences, FiniteSets, TLC

VARIABLES
    pc,               \* position of the run inside extract_country_mapping
    csvExists,        \* environment: csv_file.exists()
    priorOut,         \* environment: country-mapping.json before the run
    outFile,          \* country-mapping.json now
    fieldnames,       \* DictReader.fieldnames (the header row)
    rowsRead,         \* history: the rows the csv reader has yielded, in file order
                      \* (kept until line 32, which is the last to depend on them)
    country_map,      \* the dict country_map
    sorted_countries, \* the list sorted_countries
    stdout,           \* the lines printed so far
    inOpen,           \* the input handle f of line 22 is open
    inOpens,          \* how many times the input file was opened
    outOpen,          \* the output handle f of line 58 is open
    outOpens,         \* how many times the output file was opened
    fault,            \* the uncaught exception, "none" when there is none
    status            \* "running", "exit0" or "exit1"

vars == <<pc, csvExists, priorOut, outFile, fieldnames, rowsRead, country_map,
          sorted_countries, stdout, inOpen, inOpens, outOpen, outOpens, fault, status>>

-----------------------------------------------------------------------------
(* Bounds and input alphabet *)

MaxRows == 3

\* The field values a row of the input may hold: whitespace only (empty once
\* stripped), plain, with single quotes, and with surrounding whitespace.
\* Three of them are distinct non-empty codes or labels once stripped.
Pool == { <<" ">>, <<"A">>, <<"'", "B", "'">>, <<" ", "C", " ">> }

\* The header rows of the input: both columns, the label column absent,
\* and the columns in the other order.
Headers == { <<"REF_AREA", "REF_AREA_LABEL">>,
             <<"REF_AREA">>,
             <<"REF_AREA_LABEL", "REF_AREA">> }

\* The rows the csv reader may yield under a header: blank, short and full.
\* (A row longer than the header only adds its surplus under restkey, which
\* the function never reads.)
RawRows(names) == UNION { [1..n -> Pool] : n \in 0..Len(names) }

csv_file == "../data/48-indicators/IMF_GFSE_GE_G14.csv"
output_file == "country-mapping.json"

-----------------------------------------------------------------------------
(* Python strings *)

Whitespace == {" ", "\t", "\n", "\r", "\f"}

\* Code points of the characters of the alphabet (str comparison is by code point).
Ord(c) ==
    CASE c = "\t" -> 9
      [] c = "\n" -> 10
      [] c = "\f" -> 12
      [] c = "\r" -> 13
      [] c = " "  -> 32
      [] c = "'"  -> 39
      [] c = "A"  -> 65
      [] c = "B"  -> 66
      [] c = "C"  -> 67
      [] c = "\\" -> 92

RECURSIVE lstrip(_)
lstrip(s) ==
    IF s # <<>> /\ s[1] \in Whitespace THEN lstrip(Tail(s)) ELSE s

RECURSIVE rstrip(_)
rstrip(s) ==
    IF s # <<>> /\ s[Len(s)] \in Whitespace
    THEN rstrip(SubSeq(s, 1, Len(s) - 1))
    ELSE s

\* Mutant of strip: only the leading whitespace is removed.
strip_leading_only(s) == lstrip(s)

\* str.strip()
strip(s) == rstrip(lstrip(s))

\* Mutant of escape_quotes: only the first single quote is escaped.
escape_quotes_first_only(name) ==
    IF \E i \in 1..Len(name) : name[i] = "'"
    THEN LET i == CHOOSE j \in 1..Len(name) :
                      name[j] = "'" /\ \A k \in 1..(j - 1) : name[k] # "'"
         IN SubSeq(name, 1, i - 1) \o <<"\\", "'">> \o SubSeq(name, i + 1, Len(name))
    ELSE name

\* name.replace("'", "\\'"): every occurrence, left to right
RECURSIVE escape_quotes(_)
escape_quotes(name) ==
    IF name = <<>> THEN <<>>
    ELSE IF name[1] = "'"
         THEN <<"\\", "'">> \o escape_quotes(Tail(name))
         ELSE <<name[1]>> \o escape_quotes(Tail(name))

\* a < b for str
RECURSIVE str_lt(_, _)
str_lt(a, b) ==
    IF b = <<>> THEN FALSE
    ELSE IF a = <<>> THEN TRUE
    ELSE IF a[1] = b[1] THEN str_lt(Tail(a), Tail(b))
    ELSE Ord(a[1]) < Ord(b[1])

\* (code, name) < (code2, name2) for tuples of str
tuple_lt(p, q) ==
    \/ str_lt(p[1], q[1])
    \/ p[1] = q[1] /\ str_lt(p[2], q[2])

-----------------------------------------------------------------------------
(* Python dict and list helpers *)

dict_keys(d) == { d[i][1] : i \in 1..Len(d) }

\* Mutant of dict_set: an existing key keeps its value (setdefault).
dict_set_keep_first(d, k, v) ==
    IF k \in dict_keys(d) THEN d ELSE Append(d, <<k, v>>)

\* d[k] = v: an existing key keeps its position and takes the new value
dict_set(d, k, v) ==
    IF k \in dict_keys(d)
    THEN [i \in 1..Len(d) |-> IF d[i][1] = k THEN <<k, v>> ELSE d[i]]
    ELSE Append(d, <<k, v>>)

\* Mutant of dict_of: of the pairs with one key, the first gives the value.
RECURSIVE dict_of_first_wins(_)
dict_of_first_wins(pairs) ==
    IF pairs = <<>> THEN <<>>
    ELSE LET n == Len(pairs)
             d == dict_of_first_wins(SubSeq(pairs, 1, n - 1))
         IN IF pairs[n][1] \in dict_keys(d) THEN d ELSE Append(d, pairs[n])

\* dict(pairs): the pairs inserted in order
RECURSIVE dict_of(_)
dict_of(pairs) ==
    IF pairs = <<>> THEN <<>>
    ELSE LET n == Len(pairs)
         IN dict_set(dict_of(SubSeq(pairs, 1, n - 1)), pairs[n][1], pairs[n][2])

\* insertion of one item into a sorted list, after the items not greater
RECURSIVE insert_sorted(_, _)
insert_sorted(lst, p) ==
    IF lst = <<>> THEN <<p>>
    ELSE IF tuple_lt(p, lst[1]) THEN <<p>> \o lst
    ELSE <<lst[1]>> \o insert_sorted(Tail(lst), p)

\* Mutant of sorted: the items stay in insertion order.
sorted_not_sorted(items) == items

\* sorted(items): ascending, stable
RECURSIVE sorted(_)
sorted(items) ==
    IF items = <<>> THEN <<>>
    ELSE LET n == Len(items)
         IN insert_sorted(sorted(SubSeq(items, 1, n - 1)), items[n])

-----------------------------------------------------------------------------
(* csv.DictReader *)

\* restval: the value DictReader gives the columns a short row lacks.  It is
\* not a str: no sequence of one-character strings equals it.
None == <<"None">>

\* restkey: the key under which DictReader stores the surplus of a long row
restkey == "None"

\* The dict DictReader.__next__ builds from one non-blank row: zip of the
\* header and the row, the surplus under restkey, None for the columns the
\* row lacks.
DictReaderRow(names, raw) ==
    LET lf == Len(names)
        lr == Len(raw)
        zipped == { names[i] : i \in 1..(IF lf < lr THEN lf ELSE lr) }
        short == { names[i] : i \in (lr + 1)..lf }
        keys == zipped \cup short \cup (IF lf < lr THEN {restkey} ELSE {})
    IN [k \in keys |->
          IF k \in zipped
          THEN raw[CHOOSE i \in 1..lf : i <= lr /\ names[i] = k
                                        /\ \A j \in (i + 1)..lf : j <= lr => names[j] # k]
          ELSE IF k \in short THEN None
          ELSE SubSeq(raw, lf + 1, lr)]

\* row.get(key, '')
row_get(row, key) == IF key \in DOMAIN row THEN row[key] ELSE <<>>

-----------------------------------------------------------------------------
(* Output *)

\* One printed line: the f-string and the values substituted into it.
Line(fmt, args) == [fmt |-> fmt, args |-> args]

Rule80 == "================================================================================"

\* lines 34-39
BannerLines(n) ==
    << Line("Found {len(sorted_countries)} unique countries\n", <<n>>),
       Line(Rule80, <<>>),
       Line("COUNTRY CODE MAPPING (for countryMapping.js)", <<>>),
       Line(Rule80, <<>>),
       Line("\n// Extracted from IMF data - REF_AREA_LABEL to REF_AREA", <<>>),
       Line("const IMF_COUNTRY_MAP = {", <<>>) >>

\* line 44, one iteration of the loop of line 41
NameToCodeLine(p) ==
    Line("  '{escaped_name}': '{code}',", <<escape_quotes(p[2]), p[1]>>)

\* line 53, one iteration of the loop of line 51
CodeToNameLine(p) ==
    Line("  '{code}': '{escaped_name}',", <<p[1], escape_quotes(p[2])>>)

\* Mutant of name_to_code: the pairs are not turned around.
name_to_code_not_swapped(pairs) == dict_of(pairs)

\* {name: code for code, name in sorted_countries}
name_to_code(pairs) ==
    dict_of([i \in 1..Len(pairs) |-> <<pairs[i][2], pairs[i][1]>>])

\* dict(sorted_countries)
code_to_name(pairs) == dict_of(pairs)

\* The content of country-mapping.json.  A written file is the JSON object of
\* lines 59-62, its two members in the order the dicts iterate.
FileAbsent == [state |-> "absent", nameToCode |-> <<>>, codeToName |-> <<>>]
FileOld    == [state |-> "old", nameToCode |-> <<>>, codeToName |-> <<>>]
FileEmpty  == [state |-> "empty", nameToCode |-> <<>>, codeToName |-> <<>>]
FilePartial == [state |-> "partial", nameToCode |-> <<>>, codeToName |-> <<>>]
FileJson(pairs) ==
    [state |-> "json", nameToCode |-> name_to_code(pairs), codeToName |-> code_to_name(pairs)]

-----------------------------------------------------------------------------
(* The run *)

Init ==
    /\ pc = "start"
    /\ csvExists \in BOOLEAN
    /\ priorOut \in {FileAbsent, FileOld}
    /\ outFile = priorOut
    /\ fieldnames = <<>>
    /\ rowsRead = <<>>
    /\ country_map = <<>>
    /\ sorted_countries = <<>>
    /\ stdout = <<>>
    /\ inOpen = FALSE
    /\ inOpens = 0
    /\ outOpen = FALSE
    /\ outOpens = 0
    /\ fault = "none"
    /\ status = "running"

\* Mutant of InputNotFound: the error is printed but the function goes on.
InputNotFound_NoReturn ==
    /\ pc = "start"
    /\ ~csvExists
    /\ stdout' = Append(stdout, Line("Error: {csv_file} not found", <<csv_file>>))
    /\ pc' = "open_input"
    /\ UNCHANGED <<csvExists, priorOut, outFile, fieldnames, rowsRead, country_map,
                   sorted_countries, inOpen, inOpens, outOpen, outOpens, fault, status>>

\* lines 16-18: the input is missing; report and return
InputNotFound ==
    /\ pc = "start"
    /\ ~csvExists
    /\ stdout' = Append(stdout, Line("Error: {csv_file} not found", <<csv_file>>))
    /\ pc' = "done"
    /\ status' = "exit0"
    /\ UNCHANGED <<csvExists, priorOut, outFile, fieldnames, rowsRead, country_map,
                   sorted_countries, inOpen, inOpens, outOpen, outOpens, fault>>

\* lines 16, 20: the input exists
InputFound ==
    /\ pc = "start"
    /\ csvExists
    /\ country_map' = <<>>
    /\ pc' = "open_input"
    /\ UNCHANGED <<csvExists, priorOut, outFile, fieldnames, rowsRead,
                   sorted_countries, stdout, inOpen, inOpens, outOpen, outOpens,
                   fault, status>>

\* line 22: open(csv_file, 'r')
OpenInput ==
    /\ pc = "open_input"
    /\ inOpen' = TRUE
    /\ inOpens' = inOpens + 1
    /\ pc' = "read_header"
    /\ UNCHANGED <<csvExists, priorOut, outFile, fieldnames, rowsRead, country_map,
                   sorted_countries, stdout, outOpen, outOpens, fault, status>>

\* line 22: open raises (the file cannot be read); nothing catches it
OpenInputError ==
    /\ pc = "open_input"
    /\ fault' = "OSError"
    /\ pc' = "aborted"
    /\ status' = "exit1"
    /\ UNCHANGED <<csvExists, priorOut, outFile, fieldnames, rowsRead, country_map,
                   sorted_countries, stdout, inOpen, inOpens, outOpen, outOpens>>

\* lines 23-24: the first next() reads the header row into fieldnames
ReadHeader ==
    /\ pc = "read_header"
    /\ \E h \in Headers : fieldnames' = h
    /\ pc' = "read_rows"
    /\ UNCHANGED <<csvExists, priorOut, outFile, rowsRead, country_map,
                   sorted_countries, stdout, inOpen, inOpens, outOpen, outOpens,
                   fault, status>>

\* Mutant of LeaveRead: the handle stays open after the loop.
LeaveRead_NoClose ==
    /\ pc' = "sort"
    /\ UNCHANGED <<csvExists, priorOut, outFile, fieldnames, rowsRead, country_map,
                   sorted_countries, stdout, inOpen, inOpens, outOpen, outOpens,
                   fault, status>>

\* The with block of line 22 is left normally: the handle is closed.
LeaveRead ==
    /\ inOpen' = FALSE
    /\ pc' = "sort"
    /\ UNCHANGED <<csvExists, priorOut, outFile, fieldnames, rowsRead, country_map,
                   sorted_countries, stdout, inOpens, outOpen, outOpens, fault, status>>

\* lines 23-24: the file is empty, the loop body never runs
ReadEmptyFile ==
    /\ pc = "read_header"
    /\ LeaveRead

\* lines 24-29: one row of the file.  A blank row is skipped by DictReader;
\* any other row is looked up, stripped and, when both values are non-empty,
\* stored.
ReadRow ==
    /\ pc = "read_rows"
    /\ Len(rowsRead) < MaxRows
    /\ \E raw \in RawRows(fieldnames) :
         /\ rowsRead' = Append(rowsRead, raw)
         /\ IF raw = <<>>
            THEN country_map' = country_map
            ELSE LET row == DictReaderRow(fieldnames, raw)
                     c == row_get(row, "REF_AREA")
                     n == row_get(row, "REF_AREA_LABEL")
                 IN /\ c # None
                    /\ n # None
                    /\ LET code == strip(c)
                           name == strip(n)
                       IN country_map' =
                            IF code # <<>> /\ name # <<>>
                            THEN dict_set(country_map, code, name)
                            ELSE country_map
    /\ UNCHANGED <<pc, csvExists, priorOut, outFile, fieldnames, sorted_countries,
                   stdout, inOpen, inOpens, outOpen, outOpens, fault, status>>

\* Mutant of AbortRead: the exception is caught and the run goes on with the
\* rows collected so far.
AbortRead_Swallowed(exc) ==
    /\ inOpen' = FALSE
    /\ fault' = exc
    /\ pc' = "sort"
    /\ UNCHANGED <<csvExists, priorOut, outFile, fieldnames, country_map,
                   sorted_countries, stdout, inOpens, outOpen, outOpens, status>>

\* An exception leaves the with block of line 22: the handle is closed and
\* the exception ends the run.
AbortRead(exc) ==
    /\ inOpen' = FALSE
    /\ fault' = exc
    /\ pc' = "aborted"
    /\ status' = "exit1"
    /\ UNCHANGED <<csvExists, priorOut, outFile, fieldnames, country_map,
                   sorted_countries, stdout, inOpens, outOpen, outOpens>>

\* lines 25-26: a row shorter than the header has None for REF_AREA or
\* REF_AREA_LABEL, and None has no strip
ReadRowNoneStrip ==
    /\ pc = "read_rows"
    /\ Len(rowsRead) < MaxRows
    /\ \E raw \in RawRows(fieldnames) :
         /\ raw # <<>>
         /\ LET row == DictReaderRow(fieldnames, raw)
            IN \/ row_get(row, "REF_AREA") = None
               \/ row_get(row, "REF_AREA_LABEL") = None
         /\ rowsRead' = Append(rowsRead, raw)
    /\ AbortRead("AttributeError")

\* line 24: the reader itself raises (undecodable bytes, csv.Error, I/O error)
ReadError ==
    /\ pc \in {"read_header", "read_rows"}
    /\ rowsRead' = rowsRead
    /\ AbortRead("ReadError")

\* line 24: end of file
ReadEOF ==
    /\ pc = "read_rows"
    /\ LeaveRead

\* line 32
Sort ==
    /\ pc = "sort"
    /\ sorted_countries' = sorted(country_map)
    /\ rowsRead' = <<>>
    /\ pc' = "banner"
    /\ UNCHANGED <<csvExists, priorOut, outFile, fieldnames, country_map,
                   stdout, inOpen, inOpens, outOpen, outOpens, fault, status>>

\* lines 34-39
PrintBanner ==
    /\ pc = "banner"
    /\ stdout' = stdout \o BannerLines(Len(sorted_countries))
    /\ pc' = "render_name_to_code"
    /\ UNCHANGED <<csvExists, priorOut, outFile, fieldnames, rowsRead, country_map,
                   sorted_countries, inOpen, inOpens, outOpen, outOpens, fault, status>>

\* lines 41-46
RenderNameToCode ==
    /\ pc = "render_name_to_code"
    /\ stdout' = stdout
                 \o [i \in 1..Len(sorted_countries) |-> NameToCodeLine(sorted_countries[i])]
                 \o << Line("}\n", <<>>) >>
    /\ pc' = "render_code_to_name"
    /\ UNCHANGED <<csvExists, priorOut, outFile, fieldnames, rowsRead, country_map,
                   sorted_countries, inOpen, inOpens, outOpen, outOpens, fault, status>>

\* lines 49-54
RenderCodeToName ==
    /\ pc = "render_code_to_name"
    /\ stdout' = stdout
                 \o << Line("\n// Reverse mapping (code to name) for display", <<>>),
                       Line("const CODE_TO_NAME = {", <<>>) >>
                 \o [i \in 1..Len(sorted_countries) |-> CodeToNameLine(sorted_countries[i])]
                 \o << Line("}\n", <<>>) >>
    /\ pc' = "open_output"
    /\ UNCHANGED <<csvExists, priorOut, outFile, fieldnames, rowsRead, country_map,
                   sorted_countries, inOpen, inOpens, outOpen, outOpens, fault, status>>

\* line 58: open(output_file, 'w') creates or truncates the file
OpenOutput ==
    /\ pc = "open_output"
    /\ outOpen' = TRUE
    /\ outOpens' = outOpens + 1
    /\ outFile' = FileEmpty
    /\ pc' = "dump"
    /\ UNCHANGED <<csvExists, priorOut, fieldnames, rowsRead, country_map,
                   sorted_countries, stdout, inOpen, inOpens, fault, status>>

\* line 58: open raises (the directory is not writable)
OpenOutputError ==
    /\ pc = "open_output"
    /\ fault' = "OSError"
    /\ pc' = "aborted"
    /\ status' = "exit1"
    /\ UNCHANGED <<csvExists, priorOut, outFile, fieldnames, rowsRead, country_map,
                   sorted_countries, stdout, inOpen, inOpens, outOpen, outOpens>>

\* lines 58-62: json.dump writes the object and the with block closes the file
Dump ==
    /\ pc = "dump"
    /\ outFile' = FileJson(sorted_countries)
    /\ outOpen' = FALSE
    /\ pc' = "confirm"
    /\ UNCHANGED <<csvExists, priorOut, fieldnames, rowsRead, country_map,
                   sorted_countries, stdout, inOpen, inOpens, outOpens, fault, status>>

\* lines 58-62: a write fails part way; the with block closes the file
DumpError ==
    /\ pc = "dump"
    /\ outFile' \in {FileEmpty, FilePartial}
    /\ outOpen' = FALSE
    /\ fault' = "OSError"
    /\ pc' = "aborted"
    /\ status' = "exit1"
    /\ UNCHANGED <<csvExists, priorOut, fieldnames, rowsRead, country_map,
                   sorted_countries, stdout, inOpen, inOpens, outOpens>>

\* lines 64-65 (each line starts with a check-mark emoji), then the return
Confirm ==
    /\ pc = "confirm"
    /\ stdout' = stdout
                 \o << Line("\nMapping saved to {output_file}", <<output_file>>),
                       Line("Total countries: {len(sorted_countries)}",
                            <<Len(sorted_countries)>>) >>
    /\ pc' = "done"
    /\ status' = "exit0"
    /\ UNCHANGED <<csvExists, priorOut, outFile, fieldnames, rowsRead, country_map,
                   sorted_countries, inOpen, inOpens, outOpen, outOpens, fault>>

Next ==
    \/ InputNotFound
    \/ InputFound
    \/ OpenInput
    \/ OpenInputError
    \/ ReadHeader
    \/ ReadEmptyFile
    \/ ReadRow
    \/ ReadRowNoneStrip
    \/ ReadError
    \/ ReadEOF
    \/ Sort
    \/ PrintBanner
    \/ RenderNameToCode
    \/ RenderCodeToName
    \/ OpenOutput
    \/ OpenOutputError
    \/ Dump
    \/ DumpError
    \/ Confirm

Spec == Init /\ [][Next]_vars

-----------------------------------------------------------------------------
(* Vocabulary of the properties, stated without the operators of the model *)

Min(S) == CHOOSE x \in S : \A y \in S : x <= y
Max(S) == CHOOSE x \in S : \A y \in S : x >= y

\* s without its leading and trailing whitespace
Stripped(s) ==
    LET solid == { i \in 1..Len(s) : s[i] \notin Whitespace }
    IN IF solid = {} THEN <<>> ELSE SubSeq(s, Min(solid), Max(solid))

\* s is non-empty and has no whitespace at either end
TrimmedNonEmpty(s) ==
    /\ s # <<>>
    /\ s[1] \notin Whitespace
    /\ s[Len(s)] \notin Whitespace

\* a sorts strictly before b: at the first position where they differ, a has
\* ended or has the smaller code point
StrBefore(a, b) ==
    \E i \in 1..Len(b) :
        /\ Len(a) >= i - 1
        /\ \A j \in 1..(i - 1) : a[j] = b[j]
        /\ IF Len(a) = i - 1 THEN TRUE ELSE Ord(a[i]) < Ord(b[i])

\* the columns of the header named col that the row has a value for
ColumnsOf(names, raw, col) ==
    { i \in 1..Len(names) : names[i] = col /\ i <= Len(raw) }

\* the row lacks the field: no column of that name, or the row ends before it
FieldMissing(names, raw, col) == ColumnsOf(names, raw, col) = {}

\* the text of the field, empty when the row lacks it
FieldText(names, raw, col) ==
    IF FieldMissing(names, raw, col) THEN <<>>
    ELSE raw[Max(ColumnsOf(names, raw, col))]

\* the stripped code and label of each row read, by position
RowCodes ==
    [i \in 1..Len(rowsRead) |-> Stripped(FieldText(fieldnames, rowsRead[i], "REF_AREA"))]
RowLabels ==
    [i \in 1..Len(rowsRead) |-> Stripped(FieldText(fieldnames, rowsRead[i], "REF_AREA_LABEL"))]

\* the positions of the rows whose stripped code and label are both non-empty
RetainedOf(codes, labels) ==
    { i \in 1..Len(rowsRead) : codes[i] # <<>> /\ labels[i] # <<>> }

\* a dict as the set of its <<key, value>> pairs
Pairs(d) == { <<d[i][1], d[i][2]>> : i \in 1..Len(d) }

UniqueKeys(d) == \A i, j \in 1..Len(d) : d[i][1] = d[j][1] => i = j

IsNameToCodeLine(l) == l.fmt = "  '{escaped_name}': '{code}',"
IsCodeToNameLine(l) == l.fmt = "  '{code}': '{escaped_name}',"
IsFoundLine(l) == l.fmt = "Found {len(sorted_countries)} unique countries\n"
IsTotalLine(l) == l.fmt = "Total countries: {len(sorted_countries)}"
IsSavedLine(l) == l.fmt = "\nMapping saved to {output_file}"
IsCloseBrace(l) == l.fmt = "}\n"

NameToCodeLines == SelectSeq(stdout, IsNameToCodeLine)
CodeToNameLines == SelectSeq(stdout, IsCodeToNameLine)

ReadFaults == {"AttributeError", "ReadError"}

-----------------------------------------------------------------------------
(* C1 *)

\* C1: once the rows have been read, country_map has exactly one entry for each
\* distinct stripped code of a row whose stripped code and label are both
\* non-empty, and its label is the stripped label of the last such row (a later
\* row with the same code and an empty label changes nothing).
C1_LastWriteWins ==
    pc = "sort" =>
        LET codes == RowCodes
            labels == RowLabels
            retained == RetainedOf(codes, labels)
        IN /\ UniqueKeys(country_map)
           /\ dict_keys(country_map) = { codes[i] : i \in retained }
           /\ \A e \in Pairs(country_map) :
                \E last \in retained :
                    /\ codes[last] = e[1]
                    /\ labels[last] = e[2]
                    /\ \A i \in retained : codes[i] = e[1] => i <= last

\* A code retained twice with different labels, then seen with an empty label.
C1_Witness ==
    /\ pc = "sort"
    /\ LET codes == RowCodes
           labels == RowLabels
           retained == RetainedOf(codes, labels)
       IN \E i, j, k \in 1..Len(rowsRead) :
            /\ i < j /\ j < k
            /\ i \in retained /\ j \in retained
            /\ codes[i] = codes[j]
            /\ labels[i] # labels[j]
            /\ rowsRead[k] # <<>>
            /\ codes[k] = codes[i]
            /\ labels[k] = <<>>

-----------------------------------------------------------------------------
(* C2 *)

\* the relation of a dict, turned around
Inverse(R) == { <<p[2], p[1]>> : p \in R }

\* C2 as stated: in the written file, codeToName and nameToCode are exact
\* inverses, also when two retained codes carry the same label.
C2_ExactInverses ==
    outFile.state = "json" =>
        Pairs(outFile.nameToCode) = Inverse(Pairs(outFile.codeToName))

\* C2 as amended: every nameToCode pair is a codeToName pair turned around;
\* every label of codeToName is a key of nameToCode, and it maps back to the
\* same code whenever no other retained code carries that label.
C2_InverseUpToSharedLabels ==
    outFile.state = "json" =>
        LET NC == Pairs(outFile.nameToCode)
            CN == Pairs(outFile.codeToName)
        IN /\ UniqueKeys(outFile.nameToCode)
           /\ UniqueKeys(outFile.codeToName)
           /\ NC \subseteq Inverse(CN)
           /\ \A e \in CN :
                /\ e[2] \in dict_keys(outFile.nameToCode)
                /\ (\A o \in CN : o[2] = e[2] => o[1] = e[1]) => <<e[2], e[1]>> \in NC

\* A written file where one label is shared by two codes and a third code
\* has a label of its own.
C2_Witness ==
    /\ outFile.state = "json"
    /\ Len(outFile.codeToName) = 3
    /\ Len(outFile.nameToCode) = 2

-----------------------------------------------------------------------------
(* C3 *)

\* C3 as stated: a row that lacks the code field or the label field (such as a
\* row shorter than the header) is skipped: it does not abort the run.
C3_MissingFieldSkipped ==
    \A i \in 1..Len(rowsRead) :
        ( /\ rowsRead[i] # <<>>
          /\ \/ FieldMissing(fieldnames, rowsRead[i], "REF_AREA")
             \/ FieldMissing(fieldnames, rowsRead[i], "REF_AREA_LABEL") )
        => ~(i = Len(rowsRead) /\ pc = "aborted" /\ fault = "AttributeError")

-----------------------------------------------------------------------------
(* C4 *)

\* C4: when the input does not exist the run prints the one error line with
\* the path, never opens the input or the output, leaves country-mapping.json
\* as it was, prints no count line or snippet, and ends with status 0.
C4_MissingInput ==
    ~csvExists =>
        /\ pc \in {"start", "done"}
        /\ inOpens = 0 /\ ~inOpen
        /\ outOpens = 0 /\ ~outOpen
        /\ rowsRead = <<>>
        /\ outFile = priorOut
        /\ fault = "none"
        /\ pc = "start" => stdout = <<>> /\ status = "running"
        /\ pc = "done" =>
             /\ Len(stdout) = 1
             /\ stdout[1].fmt = "Error: {csv_file} not found"
             /\ stdout[1].args = <<csv_file>>
             /\ status = "exit0"

\* The run has ended on a missing input, with an output file of an earlier run.
C4_Witness ==
    /\ ~csvExists
    /\ pc = "done"
    /\ priorOut = FileOld

-----------------------------------------------------------------------------
(* C5 *)

\* C5: every code and label of the table, of the sorted sequence, of either
\* snippet and of the written file is non-empty with no surrounding
\* whitespace, and once the rows have been read every entry of the table is
\* the stripped code and label of a row for which both are non-empty.
C5_OnlyNonEmptyTrimmed ==
    /\ \A e \in Pairs(country_map) \cup Pairs(sorted_countries) :
         TrimmedNonEmpty(e[1]) /\ TrimmedNonEmpty(e[2])
    /\ \A i \in 1..Len(stdout) :
         (IsNameToCodeLine(stdout[i]) \/ IsCodeToNameLine(stdout[i])) =>
             /\ TrimmedNonEmpty(stdout[i].args[1])
             /\ TrimmedNonEmpty(stdout[i].args[2])
    /\ \A e \in Pairs(outFile.nameToCode) \cup Pairs(outFile.codeToName) :
         TrimmedNonEmpty(e[1]) /\ TrimmedNonEmpty(e[2])
    /\ pc = "sort" =>
         LET codes == RowCodes
             labels == RowLabels
         IN \A e \in Pairs(country_map) :
                \E i \in RetainedOf(codes, labels) : e = <<codes[i], labels[i]>>

\* The rows read hold a whitespace-only code, a whitespace-only label and a
\* padded code, and the table is not empty.
C5_Witness ==
    /\ pc = "sort"
    /\ country_map # <<>>
    /\ LET codes == RowCodes
           labels == RowLabels
       IN \E i, j, k \in 1..Len(rowsRead) :
            /\ Len(rowsRead[i]) = 2 /\ Len(rowsRead[j]) = 2
            /\ k \in RetainedOf(codes, labels)
            /\ codes[i] = <<>> /\ labels[i] # <<>>
            /\ codes[j] # <<>> /\ labels[j] = <<>>
            /\ FieldText(fieldnames, rowsRead[k], "REF_AREA") # codes[k]

-----------------------------------------------------------------------------
(* C6 *)

Sorted == pc \in {"banner", "render_name_to_code", "render_code_to_name",
                  "open_output", "dump", "confirm", "done"}
         \/ (pc = "aborted" /\ fault \notin ReadFaults /\ inOpens = 1)

\* The part of C6 that is not about nameToCode: sorted_countries holds the
\* entries of the table, each once, strictly ascending by code; each snippet,
\* once printed, lists them in that order, and so does codeToName.
OrderOfSortedSnippetsAndCodeToName ==
    /\ Pairs(sorted_countries) = Pairs(country_map)
    /\ Len(sorted_countries) = Len(country_map)
    /\ \A i \in 1..(Len(sorted_countries) - 1) :
         StrBefore(sorted_countries[i][1], sorted_countries[i + 1][1])
    /\ NameToCodeLines # <<>> \/ pc \notin {"banner", "render_name_to_code"} =>
         /\ Len(NameToCodeLines) = Len(sorted_countries)
         /\ \A i \in 1..Len(NameToCodeLines) :
              NameToCodeLines[i].args[2] = sorted_countries[i][1]
    /\ CodeToNameLines # <<>>
         \/ pc \notin {"banner", "render_name_to_code", "render_code_to_name"} =>
         /\ Len(CodeToNameLines) = Len(sorted_countries)
         /\ \A i \in 1..Len(CodeToNameLines) :
              CodeToNameLines[i].args[1] = sorted_countries[i][1]
    /\ outFile.state = "json" => outFile.codeToName = sorted_countries

\* C6 as stated: ... and the entries of nameToCode follow that order too: its
\* codes, in the order of its entries, are strictly ascending.
C6_AllFollowSortedOrder ==
    Sorted =>
        /\ OrderOfSortedSnippetsAndCodeToName
        /\ outFile.state = "json" =>
             \A i \in 1..(Len(outFile.nameToCode) - 1) :
                 StrBefore(outFile.nameToCode[i][2], outFile.nameToCode[i + 1][2])

\* the first position of the label in the sorted sequence
FirstWithLabel(l) == Min({ i \in 1..Len(sorted_countries) : sorted_countries[i][2] = l })

\* C6 as amended: ... and nameToCode has one entry for each label, in the
\* order in which the labels first occur in the sorted sequence.
C6_OrderUpToSharedLabels ==
    Sorted =>
        /\ OrderOfSortedSnippetsAndCodeToName
        /\ outFile.state = "json" =>
             /\ dict_keys(outFile.nameToCode) = { e[2] : e \in Pairs(sorted_countries) }
             /\ \A i \in 1..(Len(outFile.nameToCode) - 1) :
                  FirstWithLabel(outFile.nameToCode[i][1])
                      < FirstWithLabel(outFile.nameToCode[i + 1][1])

\* Three codes collected in an order that is not the sorted one, the first and
\* the last of the sorted sequence sharing a label; the file is written.
C6_Witness ==
    /\ pc = "done"
    /\ outFile.state = "json"
    /\ Len(sorted_countries) = 3
    /\ country_map # sorted_countries
    /\ sorted_countries[1][2] = sorted_countries[3][2]
    /\ sorted_countries[1][2] # sorted_countries[2][2]

-----------------------------------------------------------------------------
(* C7 *)

\* the number of single quotes among the first i characters of s
QuotesUpTo(s, i) == Cardinality({ j \in 1..i : s[j] = "'" })

\* r is s with a backslash put before each single quote and nothing else
\* changed: character i of s is character i + QuotesUpTo(s, i) of r.
QuotesEscaped(r, s) ==
    /\ Len(r) = Len(s) + QuotesUpTo(s, Len(s))
    /\ \A i \in 1..Len(s) :
         /\ r[i + QuotesUpTo(s, i)] = s[i]
         /\ s[i] = "'" => r[i + QuotesUpTo(s, i) - 1] = "\\"

\* C7: in both snippets the label of each line is the label of the entry with
\* every single quote preceded by a backslash and nothing else changed, and
\* the code is the code of the entry, unchanged.
C7_QuotesEscaped ==
    /\ \A i \in 1..Len(NameToCodeLines) :
         /\ QuotesEscaped(NameToCodeLines[i].args[1], sorted_countries[i][2])
         /\ NameToCodeLines[i].args[2] = sorted_countries[i][1]
    /\ \A i \in 1..Len(CodeToNameLines) :
         /\ QuotesEscaped(CodeToNameLines[i].args[2], sorted_countries[i][2])
         /\ CodeToNameLines[i].args[1] = sorted_countries[i][1]
    /\ pc \in {"open_output", "dump", "confirm", "done"} =>
         /\ Len(NameToCodeLines) = Len(sorted_countries)
         /\ Len(CodeToNameLines) = Len(sorted_countries)

\* Both snippets are printed; a label holds two single quotes, a code holds a
\* single quote, and another label holds none.
C7_Witness ==
    /\ pc = "open_output"
    /\ \E i, j, k \in 1..Len(sorted_countries) :
         /\ QuotesUpTo(sorted_countries[i][2], Len(sorted_countries[i][2])) = 2
         /\ QuotesUpTo(sorted_countries[j][1], Len(sorted_countries[j][1])) > 0
         /\ QuotesUpTo(sorted_countries[k][2], Len(sorted_countries[k][2])) = 0

-----------------------------------------------------------------------------
(* C8 *)

\* C8: when reading the rows raises, the run ends there with nothing printed
\* and country-mapping.json neither opened nor changed.
C8_ReadErrorNoOutput ==
    fault \in ReadFaults =>
        /\ pc = "aborted"
        /\ status = "exit1"
        /\ stdout = <<>>
        /\ outOpens = 0 /\ ~outOpen
        /\ outFile = priorOut

\* A row raised after an earlier row had been collected.
C8_Witness ==
    /\ fault \in ReadFaults
    /\ pc = "aborted"
    /\ country_map # <<>>

-----------------------------------------------------------------------------
(* C9 *)

AnyOutput == stdout # <<>> \/ outOpens > 0 \/ outFile # priorOut

\* C9: in a run that finds its input, the input is opened at most once and is
\* open only while the header and the rows are read (so it is released on
\* every exit of the read block); there is output only after the input was
\* opened once, read to its end and closed; the output is opened at most
\* once, only after both snippets are printed; the last two lines are printed
\* only after the output was written and closed; the two files are never
\* open together.
C9_PhaseOrder ==
    /\ inOpens <= 1 /\ outOpens <= 1
    /\ inOpen => pc \in {"read_header", "read_rows"} /\ inOpens = 1
    /\ ~(inOpen /\ outOpen)
    /\ csvExists /\ AnyOutput =>
         /\ inOpens = 1 /\ ~inOpen
         /\ fault \notin ReadFaults
         /\ pc \notin {"start", "open_input", "read_header", "read_rows", "sort"}
    /\ outOpens > 0 =>
         Cardinality({ i \in 1..Len(stdout) : IsCloseBrace(stdout[i]) }) = 2
    /\ outOpen => pc = "dump"
    /\ (\E i \in 1..Len(stdout) : IsSavedLine(stdout[i]) \/ IsTotalLine(stdout[i])) =>
         /\ ~outOpen /\ outOpens = 1
         /\ outFile.state = "json"

\* A complete run over an input with entries.
C9_Witness ==
    /\ pc = "done"
    /\ csvExists
    /\ inOpens = 1 /\ outOpens = 1
    /\ sorted_countries # <<>>

-----------------------------------------------------------------------------
(* C10 *)

\* C10: nameToCode has one entry for each retained label, and its code is the
\* greatest of the codes that carry the label; it has as many entries as
\* there are distinct labels, at most as many as codeToName; the "Found" and
\* "Total" lines both give the number of retained codes, which is the number
\* of entries of codeToName.
C10_SharedLabelsAndCounts ==
    /\ outFile.state = "json" =>
         LET CN == Pairs(outFile.codeToName)
         IN /\ UniqueKeys(outFile.nameToCode)
            /\ \A e \in Pairs(outFile.nameToCode) :
                 /\ <<e[2], e[1]>> \in CN
                 /\ \A o \in CN : o[2] = e[1] /\ o[1] # e[2] => StrBefore(o[1], e[2])
            /\ Len(outFile.nameToCode) = Cardinality({ o[2] : o \in CN })
            /\ Len(outFile.nameToCode) <= Len(outFile.codeToName)
            /\ Len(outFile.codeToName) = Cardinality(dict_keys(country_map))
    /\ \A i \in 1..Len(stdout) :
         IsFoundLine(stdout[i]) \/ IsTotalLine(stdout[i]) =>
             stdout[i].args = << Cardinality(dict_keys(country_map)) >>
    /\ pc = "done" /\ csvExists =>
         /\ IsFoundLine(stdout[1])
         /\ IsTotalLine(stdout[Len(stdout)])

\* A complete run where two of three codes share a label.
C10_Witness ==
    /\ pc = "done"
    /\ outFile.state = "json"
    /\ Len(outFile.codeToName) = 3
    /\ Len(outFile.nameToCode) = 2
    /\ stdout[1].args = <<3>>

====
